---- MODULE Spec2Model ----
(***************************************************************************)
(* The image transforms of training/cnn/utils/CNN_utils.py:                *)
(* TransCropHorizon, TransConvCoord, RandImageAugment and ToCustomTensor.  *)
(*                                                                         *)
(* One transform object is alive at a time (obj); an operation is either   *)
(* a constructor or the object's __call__ on an image.  The state records  *)
(* the last operation (op), its image argument (image), the values drawn   *)
(* from the random source during it (draws) and what it returned or        *)
(* raised (result).                                                        *)
(*                                                                         *)
(* Arrays are functions from index tuples to values.  An uint8 array       *)
(* holds integers 0..255; a float array holds exact fractions <<n, d>>     *)
(* (d > 0).  All fractions the code computes here are either dyadic or     *)
(* far from a rounding tie, so exact arithmetic gives the float result.    *)
(***************************************************************************)
EXTENDS Integers, Sequences, FiniteSets, TLC

VARIABLES obj, op, cvArg, image, via, draws, result, pyRound

vars == <<obj, op, cvArg, image, via, draws, result, pyRound>>

----------------------------------------------------------------------------
(* Bounds of the model *)

\* largest image height and width
MaxH == 3
MaxW == 2

----------------------------------------------------------------------------
(* Integer and fraction helpers *)

\* Fractions <<n, d>> with d > 0.
RLt(a, b) == a[1] * b[2] < b[1] * a[2]
REq(a, b) == a[1] * b[2] = b[1] * a[2]
RLe(a, b) == a[1] * b[2] <= b[1] * a[2]
RAdd(a, b) == <<a[1] * b[2] + b[1] * a[2], a[2] * b[2]>>
RSub(a, b) == <<a[1] * b[2] - b[1] * a[2], a[2] * b[2]>>
RMul(a, b) == <<a[1] * b[1], a[2] * b[2]>>
\* a / b for b > 0
RDiv(a, b) == <<a[1] * b[2], a[2] * b[1]>>
RInt(n) == <<n, 1>>
\* the cast of a float to uint8 as numpy and PIL do it here: clip, truncate
ToUint8(a) ==
    IF a[1] <= 0 THEN 0
    ELSE IF a[1] >= 255 * a[2] THEN 255
    ELSE a[1] \div a[2]

Min(a, b) == IF a < b THEN a ELSE b
Max(a, b) == IF a > b THEN a ELSE b

\* Python's round(num/den, 0) followed by int(), for num >= 0, den > 0.
\* mode "half_even" is Python 3's round, "half_up" Python 2's (ties away
\* from zero); the module runs under either (from __future__ import ...).
PyRound(x, mode) ==
    LET num == x[1]
        den == x[2]
        q == num \div den
        r == num % den
    IN  IF 2 * r < den THEN q
        ELSE IF 2 * r > den THEN q + 1
        ELSE IF mode = "half_even" THEN (IF q % 2 = 0 THEN q ELSE q + 1)
        ELSE q + 1

\* Python's normalisation of one slice bound against a length n.
SliceBound(x, n) == IF x < 0 THEN Max(x + n, 0) ELSE Min(x, n)

\* The indices selected by a[start:stop] on an axis of length n.
PySlice(start, stop, n) ==
    { i \in 0..(n - 1) : SliceBound(start, n) <= i /\ i < SliceBound(stop, n) }

----------------------------------------------------------------------------
(* Images *)

\* PIL modes and the shape np.array() gives them: L is 2-D, the others 3-D.
Modes == {"L", "LA", "RGB", "RGBA"}
ModeCh(m) == CASE m = "L" -> 1 [] m = "LA" -> 2 [] m = "RGB" -> 3 [] m = "RGBA" -> 4
ModeNdim(m) == IF m = "L" THEN 2 ELSE 3

Index(h, w, ch) == (0..(h - 1)) \X (0..(w - 1)) \X (0..(ch - 1))

Patterns == {"grad", "flat"}
PatternPixel(p, i, j, c) ==
    IF p = "flat" THEN 200 ELSE 10 + 50 * i + 20 * j + 5 * c

\* An 8-bit image of the given mode and size, as np.array(image) sees it.
MkImage(m, h, w, p) ==
    [type |-> "PIL", ndim |-> ModeNdim(m), h |-> h, w |-> w, ch |-> ModeCh(m),
     dtype |-> "uint8",
     px |-> [x \in Index(h, w, ModeCh(m)) |-> PatternPixel(p, x[1], x[2], x[3])]]

Images ==
    { MkImage(m, h, w, p) : m \in Modes, h \in 1..MaxH, w \in 1..MaxW, p \in Patterns }

NoImage == [type |-> "none", ndim |-> 0, h |-> 0, w |-> 0, ch |-> 0, dtype |-> "none", px |-> <<>>]

NotDrawn == <<0, 1>>
NoDraws == [n |-> 0, R |-> NotDrawn, G |-> NotDrawn, B |-> NotDrawn,
            brightness |-> NotDrawn, contrast |-> NotDrawn]

NoObject == [class |-> "none"]

\* the transforms are constructed when the pipeline is set up, before the
\* first sample is read
InSetup == image = NoImage

Returned(img) == [kind |-> "image", img |-> img]
Raised(e) == [kind |-> e, img |-> NoImage]
Constructed == [kind |-> "object", img |-> NoImage]

----------------------------------------------------------------------------
(* TransCropHorizon *)

\* crop_value arguments: binary fractions, so that image_heiht*crop_value
\* is exact in floating point
CropValues == {<<-1, 4>>, <<0, 1>>, <<1, 4>>, <<1, 2>>, <<3, 4>>, <<1, 1>>, <<5, 4>>}

\* __init__: an out-of-range crop_value is printed about, not raised; the
\* object is returned without a crop_value attribute.
CropInRange(cv) == RLe(RInt(0), cv) /\ RLt(cv, RInt(1))

CropObject(cv, sb) ==
    [class |-> "TransCropHorizon", set_black |-> sb,
     has_crop_value |-> CropInRange(cv),
     crop_value |-> IF CropInRange(cv) THEN cv ELSE RInt(0)]

TransCropHorizon_init(cv, sb) ==
    /\ InSetup
    /\ obj' = CropObject(cv, sb)
    /\ op' = "TransCropHorizon.__init__"
    /\ cvArg' = cv
    /\ image' = NoImage
    /\ via' = "none"
    /\ draws' = NoDraws
    /\ result' = Constructed
    /\ UNCHANGED pyRound

\* crop_pixels_from_top = int(round(image_heiht*crop_value, 0))
CropPixelsFromTop(h, cv, mode) == PyRound(RMul(RInt(h), cv), mode)

\* image[:][0:k-1][:] = np.zeros_like(...): rows of the slice 0:k-1 are zeroed
BlackRows(h, k) == PySlice(0, k - 1, h)

SetBlack(img, k) ==
    [img EXCEPT !.px = [x \in DOMAIN img.px |->
                          IF x[1] \in BlackRows(img.h, k) THEN 0 ELSE img.px[x]]]

\* image = image[:][k:-1][:]: the rows of the slice k:-1 are kept
KeptRows(h, k) == PySlice(k, -1, h)

CropRows(img, k) ==
    LET rows == KeptRows(img.h, k)
        n == Cardinality(rows)
    IN  [img EXCEPT !.h = n,
                    !.px = [x \in Index(n, img.w, img.ch) |->
                              img.px[<<x[1] + SliceBound(k, img.h), x[2], x[3]>>]]]

TransCropHorizon_call ==
    /\ op = "LanePoseDataset.__getitem__"
    /\ obj.class = "TransCropHorizon"
    /\ op' = "TransCropHorizon.__call__"
    /\ UNCHANGED <<obj, cvArg, image, via, draws, pyRound>>
    /\ IF ~obj.has_crop_value
       THEN result' = Raised("AttributeError")
       ELSE LET k == CropPixelsFromTop(image.h, obj.crop_value, pyRound)
            IN  IF obj.set_black
                THEN result' = Returned(SetBlack(image, k))
                ELSE LET out == CropRows(image, k)
                     IN  IF out.h > 0
                         THEN result' = Returned(out)
                         \* Image.fromarray of an array with no rows: the
                         \* installed PIL either refuses it or builds an
                         \* image of height 0
                         ELSE result' \in {Returned(out), Raised("ValueError")}

----------------------------------------------------------------------------
(* LanePoseDataset.__getitem__: the image is read, wrapped as a PIL image   *)
(* and handed to the transform.                                             *)

LanePoseDataset_getitem(img) ==
    /\ obj.class # "none"
    /\ op # "LanePoseDataset.__getitem__"
    /\ op' = "LanePoseDataset.__getitem__"
    /\ image' = img
    /\ via' = "none"
    /\ draws' = NoDraws
    /\ result' = [kind |-> "none", img |-> NoImage]
    /\ UNCHANGED <<obj, cvArg, pyRound>>

----------------------------------------------------------------------------
(* TransConvCoord *)

TransConvCoord_init ==
    /\ InSetup
    /\ obj' = [class |-> "TransConvCoord"]
    /\ op' = "TransConvCoord.__init__"
    /\ cvArg' = RInt(0)
    /\ image' = NoImage
    /\ via' = "none"
    /\ draws' = NoDraws
    /\ result' = Constructed
    /\ UNCHANGED pyRound

\* image_ch: 1 for a 2-D array, shape[2] otherwise
ImageCh(img) == IF img.ndim = 2 THEN 1 ELSE img.ch

\* a ramp built from the wrong loop index
ConvChTb_columnIndex(i, j, h) == <<j, h - 1>>

\* convCh_tb[i, j] = i/(image_h-1), convCh_lr[i, j] = j/(image_w-1)
ConvChTb(i, j, h) == <<i, h - 1>>
ConvChLr(i, j, w) == <<j, w - 1>>

\* image_new = np.zeros([h, w, ch+2]), filled only when ch is 1 or 3
ImageNew(img) ==
    LET c == ImageCh(img)
    IN  [type |-> "ndarray", ndim |-> 3, h |-> img.h, w |-> img.w, ch |-> c + 2,
         dtype |-> "float",
         px |-> [x \in Index(img.h, img.w, c + 2) |->
                   IF c = 1 \/ c = 3
                   THEN IF x[3] < c THEN RInt(img.px[x])
                        ELSE IF x[3] = c THEN ConvChTb(x[1], x[2], img.h)
                        ELSE ConvChLr(x[1], x[2], img.w)
                   ELSE RInt(0)]]

\* the whole __call__: the ramps are computed first, and i/(h-1) or
\* j/(w-1) divides by zero on an image one pixel high or wide
ConvCoord(img) ==
    IF img.h = 1 \/ img.w = 1 THEN Raised("ZeroDivisionError")
    ELSE [kind |-> "array", img |-> ImageNew(img)]

TransConvCoord_call ==
    /\ op = "LanePoseDataset.__getitem__"
    /\ obj.class = "TransConvCoord"
    /\ op' = "TransConvCoord.__call__"
    /\ result' = ConvCoord(image)
    /\ UNCHANGED <<obj, cvArg, image, via, draws, pyRound>>

----------------------------------------------------------------------------
(* RandImageAugment *)

\* configured maximum deviations (the sigmas only shape the distribution of
\* the draws, which are arbitrary here)
WbMaxDevs == {<<1, 1>>, <<2, 1>>}
EnhMaxDevs == {<<1, 2>>, <<1, 1>>}
\* values of abs(random.gauss(0, sigma)) and of random.gauss(1, sigma)
GaussAbs == {<<1, 1>>, <<2, 1>>}
GaussFactor == {<<1, 2>>, <<3, 2>>}

\* a disabled sub-augmentation keeps its default maximum deviation
DefaultMaxDev == <<6, 10>>
DevChoice(enabled, devs) == IF enabled THEN devs ELSE {DefaultMaxDev}

RandImageAugment_init(awb, wbDev, ab, bDev, ac, cDev) ==
    /\ InSetup
    /\ obj' = [class |-> "RandImageAugment",
               augment_white_balance |-> awb,
               white_balance_augment_max_deviation |-> wbDev,
               augment_brightness |-> ab,
               brightness_augment_max_deviation |-> bDev,
               augment_contrast |-> ac,
               contrast_augment_max_deviation |-> cDev]
    /\ op' = "RandImageAugment.__init__"
    /\ cvArg' = RInt(0)
    /\ image' = NoImage
    /\ via' = "none"
    /\ draws' = NoDraws
    /\ result' = Constructed
    /\ UNCHANGED pyRound

\* if gauss < max_deviation: X_w = 255*(1+gauss) else: X_w = 255
WbAccepted(g, maxDev) == RLt(g, maxDev)
ChannelW(g, maxDev) ==
    IF WbAccepted(g, maxDev) THEN RMul(RInt(255), RAdd(RInt(1), g)) ELSE RInt(255)
\* RGB_w = [255/R_w, 255/G_w, 255/B_w]
Gain(g, maxDev) == RDiv(RInt(255), ChannelW(g, maxDev))

\* for h in range(0, shape[0]-1): for w in range(0, shape[1]-1)
WbPixels(img) == { x \in DOMAIN img.px : x[1] < img.h - 1 /\ x[2] < img.w - 1 }

\* image[h,w] = np.matmul(I_RGB_w, image[h,w]), stored back as uint8
WhiteBalance(img, d, maxDev) ==
    LET gains == <<Gain(d.R, maxDev), Gain(d.G, maxDev), Gain(d.B, maxDev)>>
    IN  [img EXCEPT !.px = [x \in DOMAIN img.px |->
            IF x \in WbPixels(img)
            THEN ToUint8(RMul(gains[x[3] + 1], RInt(img.px[x])))
            ELSE img.px[x]]]

\* the comparison made non-strict: a factor on the boundary is accepted
FactorAccepted_nonStrict(f, maxDev) ==
    RLe(RSub(RInt(1), maxDev), f) /\ RLe(f, RAdd(RInt(1), maxDev))

\* factor > 1-max_deviation and factor < 1+max_deviation
FactorAccepted(f, maxDev) ==
    RLt(RSub(RInt(1), maxDev), f) /\ RLt(f, RAdd(RInt(1), maxDev))

\* PIL: the alpha band of LA and RGBA is kept by both enhancers
IsAlpha(img, c) == (img.ndim = 3) /\ (img.ch = 2 \/ img.ch = 4) /\ (c = img.ch - 1)

\* PIL Image.blend(degenerate, image, factor) on one sample
Blend(deg, v, f) == ToUint8(RAdd(RInt(deg), RMul(f, RInt(v - deg))))

\* PIL ImageEnhance.Brightness(image).enhance(factor): blend with black
Brightness(img, f) ==
    [img EXCEPT !.px = [x \in DOMAIN img.px |->
        IF IsAlpha(img, x[3]) THEN img.px[x] ELSE Blend(0, img.px[x], f)]]

\* PIL image.convert("L") on one pixel
Luma(img, i, j) ==
    IF img.ch >= 3
    THEN (img.px[<<i, j, 0>>] * 19595 + img.px[<<i, j, 1>>] * 38470
          + img.px[<<i, j, 2>>] * 7471 + 32768) \div 65536
    ELSE img.px[<<i, j, 0>>]

RECURSIVE SumLuma(_, _)
SumLuma(img, n) ==
    IF n = 0 THEN 0
    ELSE Luma(img, (n - 1) \div img.w, (n - 1) % img.w) + SumLuma(img, n - 1)

\* int(ImageStat.Stat(image.convert("L")).mean[0] + 0.5)
MeanLuma(img) ==
    LET n == img.h * img.w
    IN  (2 * SumLuma(img, n) + n) \div (2 * n)

\* PIL ImageEnhance.Contrast(image).enhance(factor): blend with the mean grey
Contrast(img, f) ==
    LET m == MeanLuma(img)
    IN  [img EXCEPT !.px = [x \in DOMAIN img.px |->
            IF IsAlpha(img, x[3]) THEN img.px[x] ELSE Blend(m, img.px[x], f)]]

\* the white-balance block; image.shape[2] of a 2-D array is an IndexError
WbDraws(o, img) ==
    IF o.augment_white_balance /\ img.ndim = 3 /\ img.ch = 3
    THEN GaussAbs \X GaussAbs \X GaussAbs
    ELSE {<<NotDrawn, NotDrawn, NotDrawn>>}

AfterWhiteBalance(o, img, d) ==
    IF o.augment_white_balance /\ img.ch = 3
    THEN WhiteBalance(img, d, o.white_balance_augment_max_deviation)
    ELSE img

AfterBrightness(o, img, d) ==
    IF o.augment_brightness
       /\ FactorAccepted(d.brightness, o.brightness_augment_max_deviation)
    THEN Brightness(img, d.brightness)
    ELSE img

AfterContrast(o, img, d) ==
    IF o.augment_contrast
       /\ FactorAccepted(d.contrast, o.contrast_augment_max_deviation)
    THEN Contrast(img, d.contrast)
    ELSE img

WbRaises(o, img) == o.augment_white_balance /\ img.ndim = 2

Augment(o, img, d) ==
    IF WbRaises(o, img) THEN Raised("IndexError")
    ELSE Returned(AfterContrast(o, AfterBrightness(o, AfterWhiteBalance(o, img, d), d), d))

RandImageAugment_call ==
    /\ op = "LanePoseDataset.__getitem__"
    /\ obj.class = "RandImageAugment"
    /\ op' = "RandImageAugment.__call__"
    /\ \E rgb \in WbDraws(obj, image),
          fb \in (IF obj.augment_brightness /\ ~WbRaises(obj, image)
                  THEN GaussFactor ELSE {NotDrawn}),
          fc \in (IF obj.augment_contrast /\ ~WbRaises(obj, image)
                  THEN GaussFactor ELSE {NotDrawn}) :
         LET d == [n |-> (IF rgb[1] = NotDrawn THEN 0 ELSE 3)
                         + (IF fb = NotDrawn THEN 0 ELSE 1)
                         + (IF fc = NotDrawn THEN 0 ELSE 1),
                   R |-> rgb[1], G |-> rgb[2], B |-> rgb[3],
                   brightness |-> fb, contrast |-> fc]
         IN  /\ draws' = d
             /\ result' = Augment(obj, image, d)
    /\ UNCHANGED <<obj, cvArg, image, via, pyRound>>

----------------------------------------------------------------------------
(* ToCustomTensor *)

ToCustomTensor_init(use_convcoord) ==
    /\ InSetup
    /\ obj' = [class |-> "ToCustomTensor", use_convcoord |-> use_convcoord]
    /\ op' = "ToCustomTensor.__init__"
    /\ cvArg' = RInt(0)
    /\ image' = NoImage
    /\ via' = "none"
    /\ draws' = NoDraws
    /\ result' = Constructed
    /\ UNCHANGED pyRound

\* np.array(image): the pixel array of a PIL image
NpArray(img) == [img EXCEPT !.type = "ndarray"]

\* what the stage before ToCustomTensor hands it: the PIL image itself, its
\* pixel array, or the array TransConvCoord made of it
Upstream == {"PIL", "ndarray", "TransConvCoord"}
Pic(img, v) ==
    CASE v = "PIL" -> Returned(img)
      [] v = "ndarray" -> Returned(NpArray(img))
      [] v = "TransConvCoord" -> ConvCoord(img)

\* one sample divided by 255: true division on a float array; on an uint8
\* array the quotient is stored back into the uint8 slot (use_convcoord) or
\* makes a new float array (pic/255)
Div255(pic, v, inPlace) ==
    IF pic.dtype = "float" THEN RDiv(v, RInt(255))
    ELSE IF inPlace THEN RInt(v \div 255)
    ELSE <<v, 255>>

AsFloat(pic, v) == IF pic.dtype = "float" THEN v ELSE RInt(v)

\* the ndarray branch: normalise, then pic.transpose((2, 0, 1)) and .float()
TensorOfArray(pic, use_convcoord) ==
    [type |-> "tensor", ndim |-> 3, h |-> pic.h, w |-> pic.w, ch |-> pic.ch,
     dtype |-> "float",
     px |-> [y \in (0..(pic.ch - 1)) \X (0..(pic.h - 1)) \X (0..(pic.w - 1)) |->
               LET v == pic.px[<<y[2], y[3], y[1]>>]
               IN  IF use_convcoord
                   THEN IF y[1] = 0 THEN Div255(pic, v, TRUE) ELSE AsFloat(pic, v)
                   ELSE Div255(pic, v, FALSE)]]

\* the PIL branch for the 8-bit modes: view(h, w, nchannel), transposed,
\* then img.float().div(255)
TensorOfPIL(pic) ==
    [type |-> "tensor", ndim |-> 3, h |-> pic.h, w |-> pic.w, ch |-> pic.ch,
     dtype |-> "float",
     px |-> [y \in (0..(pic.ch - 1)) \X (0..(pic.h - 1)) \X (0..(pic.w - 1)) |->
               <<pic.px[<<y[2], y[3], y[1]>>], 255>>]]

ToTensor(pic, use_convcoord) ==
    IF pic.type = "ndarray" THEN TensorOfArray(pic, use_convcoord)
    ELSE TensorOfPIL(pic)

ToCustomTensor_call(v) ==
    /\ op = "LanePoseDataset.__getitem__"
    /\ obj.class = "ToCustomTensor"
    /\ op' = "ToCustomTensor.__call__"
    /\ via' = v
    /\ LET pic == Pic(image, v)
       IN  IF pic.kind = "ZeroDivisionError"
           THEN result' = pic
           ELSE result' = [kind |-> "tensor", img |-> ToTensor(pic.img, obj.use_convcoord)]
    /\ UNCHANGED <<obj, cvArg, image, draws, pyRound>>

----------------------------------------------------------------------------

Init ==
    /\ obj = NoObject
    /\ op = "none"
    /\ cvArg = RInt(0)
    /\ via = "none"
    /\ image = NoImage
    /\ draws = NoDraws
    /\ result = [kind |-> "none", img |-> NoImage]
    /\ pyRound \in {"half_even", "half_up"}

Next ==
    \/ \E cv \in CropValues, sb \in BOOLEAN : TransCropHorizon_init(cv, sb)
    \/ TransConvCoord_init
    \/ \E awb \in BOOLEAN, ab \in BOOLEAN, ac \in BOOLEAN :
          \E wbDev \in DevChoice(awb, WbMaxDevs), bDev \in DevChoice(ab, EnhMaxDevs),
             cDev \in DevChoice(ac, EnhMaxDevs) :
                RandImageAugment_init(awb, wbDev, ab, bDev, ac, cDev)
    \/ \E u \in BOOLEAN : ToCustomTensor_init(u)
    \/ \E img \in Images : LanePoseDataset_getitem(img)
    \/ TransCropHorizon_call
    \/ TransConvCoord_call
    \/ RandImageAugment_call
    \/ \E v \in Upstream : ToCustomTensor_call(v)

Spec == Init /\ [][Next]_vars

----------------------------------------------------------------------------
(* Properties *)

CropCalled ==
    /\ op = "TransCropHorizon.__call__"
    /\ obj.has_crop_value

\* k = round(H * crop_value) of the call just made
K == CropPixelsFromTop(image.h, obj.crop_value, pyRound)

SameShape(a, b) == a.ndim = b.ndim /\ a.h = b.h /\ a.w = b.w /\ a.ch = b.ch

\* C1: TransCropHorizon with set_black=True returns an image of the input's
\* height, width and channel count in which every pixel of rows 0..k-1
\* (row k-1 included) is zero.
C1_BlackRowsZero ==
    (CropCalled /\ obj.set_black) =>
        /\ result.kind = "image"
        /\ SameShape(result.img, image)
        /\ \A x \in DOMAIN result.img.px : x[1] < K => result.img.px[x] = 0

\* C2: TransCropHorizon with set_black=False returns the rows k..H-1 of the
\* input in their order: height H - k, width unchanged.
C2_CropHeight ==
    (CropCalled /\ ~obj.set_black) =>
        /\ result.kind = "image"
        /\ result.img.h = image.h - K
        /\ result.img.w = image.w
        /\ \A x \in DOMAIN result.img.px :
              result.img.px[x] = image.px[<<x[1] + K, x[2], x[3]>>]

\* C3: no TransCropHorizon object exists for a crop_value outside [0,1), and
\* no call on an image fails for want of one.
C3_ConstructionFails ==
    /\ obj.class = "TransCropHorizon" =>
          (RLe(RInt(0), cvArg) /\ RLt(cvArg, RInt(1)))
    /\ op = "TransCropHorizon.__call__" => result.kind # "AttributeError"

ConvCoordCalled == op = "TransConvCoord.__call__"

\* C4: TransConvCoord on an H x W image (H, W >= 2) of 1 or 3 channels
\* returns an H x W x (C+2) array whose first C channels are the input's,
\* whose channel C is i/(H-1) on row i and whose channel C+1 is j/(W-1) on
\* column j: each ramp is 0 first, 1 last and non-decreasing along its axis.
C4_CoordChannels ==
    (ConvCoordCalled /\ image.h >= 2 /\ image.w >= 2 /\ ImageCh(image) \in {1, 3}) =>
        LET c == ImageCh(image)
            out == result.img
        IN  /\ result.kind = "array"
            /\ out.ndim = 3 /\ out.h = image.h /\ out.w = image.w /\ out.ch = c + 2
            /\ DOMAIN out.px = Index(image.h, image.w, c + 2)
            /\ \A i \in 0..(image.h - 1), j \in 0..(image.w - 1) :
                  /\ \A b \in 0..(c - 1) :
                        REq(out.px[<<i, j, b>>], RInt(image.px[<<i, j, b>>]))
                  /\ out.px[<<i, j, c>>][1] * (image.h - 1) = i * out.px[<<i, j, c>>][2]
                  /\ out.px[<<i, j, c + 1>>][1] * (image.w - 1)
                        = j * out.px[<<i, j, c + 1>>][2]
                  /\ i = 0 => REq(out.px[<<i, j, c>>], RInt(0))
                  /\ i = image.h - 1 => REq(out.px[<<i, j, c>>], RInt(1))
                  /\ j = 0 => REq(out.px[<<i, j, c + 1>>], RInt(0))
                  /\ j = image.w - 1 => REq(out.px[<<i, j, c + 1>>], RInt(1))
                  /\ i > 0 => RLe(out.px[<<i - 1, j, c>>], out.px[<<i, j, c>>])
                  /\ j > 0 => RLe(out.px[<<i, j - 1, c + 1>>], out.px[<<i, j, c + 1>>])

\* a 3-channel image of at least 2 x 2 went through TransConvCoord
C4_Witness ==
    /\ ConvCoordCalled
    /\ image.h >= 2 /\ image.w >= 2 /\ image.ch = 3
    /\ result.kind = "array"
    /\ result.img.ch = 5

\* C5: TransConvCoord on a 3-D image of 2 or 4 channels fails; it never
\* returns an array.
C5_UnsupportedChannels ==
    (ConvCoordCalled /\ image.ndim = 3 /\ image.ch \notin {1, 3}) =>
        result.kind # "array"

AugmentCalled == op = "RandImageAugment.__call__"

IsRGB(img) == img.ndim = 3 /\ img.ch = 3

\* every value drawn in the call was rejected
WbRejected(g, maxDev) == RLe(maxDev, g)
FactorRejected(f, maxDev) ==
    RLe(f, RSub(RInt(1), maxDev)) \/ RLe(RAdd(RInt(1), maxDev), f)
AllRejected ==
    /\ obj.augment_white_balance =>
          \A g \in {draws.R, draws.G, draws.B} :
             WbRejected(g, obj.white_balance_augment_max_deviation)
    /\ obj.augment_brightness =>
          FactorRejected(draws.brightness, obj.brightness_augment_max_deviation)
    /\ obj.augment_contrast =>
          FactorRejected(draws.contrast, obj.contrast_augment_max_deviation)

\* C6: on a 3-channel 8-bit image, a RandImageAugment call in which every
\* drawn value is rejected (boundary values are rejected) raises nothing and
\* returns the input image unchanged.
C6_RejectedIsIdentity ==
    (AugmentCalled /\ IsRGB(image) /\ AllRejected) =>
        /\ result.kind = "image"
        /\ result.img = image

\* all three sub-augmentations enabled, five values drawn, all rejected, one
\* of them on the boundary
C6_Witness ==
    /\ AugmentCalled /\ IsRGB(image) /\ AllRejected
    /\ obj.augment_white_balance /\ obj.augment_brightness /\ obj.augment_contrast
    /\ draws.n = 5
    /\ REq(draws.R, obj.white_balance_augment_max_deviation)
    /\ REq(draws.brightness, RAdd(RInt(1), obj.brightness_augment_max_deviation))
    /\ image.h >= 2 /\ image.w >= 2
    /\ result.kind = "image"

TensorCalled == op = "ToCustomTensor.__call__"

\* C7: ToCustomTensor on an H x W x C array (image channels in [0,255];
\* with use_convcoord, the array TransConvCoord made of a 1- or 3-channel
\* image) returns a (C, H, W) tensor with every value in [0,1].
C7_TensorRange ==
    (/\ TensorCalled
     /\ IF obj.use_convcoord
        THEN via = "TransConvCoord" /\ ImageCh(image) \in {1, 3}
             /\ image.h >= 2 /\ image.w >= 2
        ELSE via = "ndarray") =>
        LET c == IF via = "TransConvCoord" THEN ImageCh(image) + 2 ELSE ImageCh(image)
        IN  /\ result.kind = "tensor"
            /\ DOMAIN result.img.px
                  = (0..(c - 1)) \X (0..(image.h - 1)) \X (0..(image.w - 1))
            /\ \A y \in DOMAIN result.img.px :
                  RLe(RInt(0), result.img.px[y]) /\ RLe(result.img.px[y], RInt(1))

\* the gain of one channel: 1/(1+g) for an accepted g, else 1
ClaimedGain(g, maxDev) ==
    IF RLt(g, maxDev) THEN <<g[2], g[2] + g[1]>> ELSE RInt(1)

\* C8: white balance scales every pixel (h, w), 0 <= h < H, 0 <= w < W, of
\* a 3-channel image by its channel's gain, the last row and column
\* included.  (Brightness and contrast disabled, to see the step alone.)
C8_WhiteBalanceAllPixels ==
    (/\ AugmentCalled /\ IsRGB(image)
     /\ obj.augment_white_balance
     /\ ~obj.augment_brightness /\ ~obj.augment_contrast) =>
        /\ result.kind = "image"
        /\ \A x \in DOMAIN image.px :
              LET g == <<draws.R, draws.G, draws.B>>[x[3] + 1]
                  gain == ClaimedGain(g, obj.white_balance_augment_max_deviation)
              IN  result.img.px[x] = (image.px[x] * gain[1]) \div gain[2]

\* C9: TransCropHorizon with set_black=True leaves rows k..H-1 as they were;
\* with k = 0 the image is returned unchanged.
C9_OnlyCroppedRowsChange ==
    (CropCalled /\ obj.set_black) =>
        /\ result.kind = "image"
        /\ \A x \in DOMAIN image.px : x[1] >= K => result.img.px[x] = image.px[x]

\* C10: RandImageAugment with augment_white_balance on a 2-D grayscale image
\* completes without error; white balance draws nothing and changes
\* nothing.
C10_GrayscaleWhiteBalance ==
    (AugmentCalled /\ obj.augment_white_balance /\ image.ndim = 2) =>
        /\ result.kind = "image"
        /\ (~obj.augment_brightness /\ ~obj.augment_contrast) => result.img = image

====
